---- MODULE Spec2Model ----
(***************************************************************************)
(* The message cache of server/message_cache.go: one SQLite relation       *)
(* "messages" (rows kept here in rowid order), the AUTOINCREMENT counter,  *)
(* the single-row relation "schemaVersion", and the open-time schema       *)
(* migration chain.  Each query or statement a method runs is one step: a  *)
(* method of one statement is one action (Spec), Messages with an id       *)
(* cursor is two, with the other callers between (ReadSpec, NopSpec); each *)
(* query and each db.Exec of the open is one step, which may fail          *)
(* (MigSpec).  AttSpec runs the attachment queries against uploads and a   *)
(* clock that passes their expiry; PubSpec adds the background publisher   *)
(* and SubSpec a subscriber polling by id cursor.                          *)
(***************************************************************************)
EXTENDS Integers, Sequences, FiniteSets, TLC

VARIABLES
    cols,     \* column names of relation messages; {} when it does not exist
    rows,     \* the rows of messages, in rowid order; a row maps column -> value
    seq,      \* sqlite_sequence: the largest id AUTOINCREMENT has handed out
    svTable,  \* whether relation schemaVersion exists
    svRow,    \* its rows with id = 1: << >> or << version >>
    nop,      \* messageCache.nop
    now,      \* time.Now().Unix()
    pc,       \* where the open (newSqliteCache/setupCacheDB) stands
    trail,    \* the migration steps logged by the current open, in order
    err,      \* the error the open returned
    discarded,\* history: the handlers that have returned on the no-op path
    found,    \* history: the store as the current open found it on disk
    locked,   \* history: a query of the current setupCacheDB that would have
              \* succeeded met a storage failure
    broke,    \* history: a statement of a migrateFrom<v> met a storage failure
    returned, \* the publisher: the rows MessagesDue has handed to it so far
    cursor,   \* the subscriber: the since marker of its next Messages call
    received, \* the subscriber: the positions of the rows it has been handed
    call      \* a Messages call between its two queries: << >> or << what it holds >>

vars == <<cols, rows, seq, svTable, svRow, nop, now, pc, trail, err, discarded,
          found, locked, broke, returned, cursor, received, call>>

\* what the callers of the store hold
clients == <<returned, cursor, received, call>>

\* ------------------------------------------------------------------ bounds

MaxRows == 2
MaxTime == 2

\* ------------------------------------------------------------- input values

Topics == {"t1", "t2"}
Mids   == {"a", "b"}
Times  == 0..MaxTime
Cutoffs == 0..(MaxTime + 1)

\* the last clock value of the attachment accountant
MaxClock == 2

\* the values time.Now().Unix() takes
Clocks == 0..(IF MaxClock > MaxTime THEN MaxClock ELSE MaxTime)

currentSchemaVersion == 5

messageEvent == "message"
keepaliveEvent == "keepalive"

\* ------------------------------------------------------------------ layout

\* createMessagesTableQuery
CurrentCols ==
    {"id", "mid", "time", "updated", "topic", "message", "title", "priority",
     "tags", "click", "attachment_name", "attachment_type", "attachment_size",
     "attachment_expires", "attachment_url", "attachment_owner", "encoding",
     "published"}

\* the columns insertMessageQuery names
InsertCols == CurrentCols \ {"id"}

\* the columns every select...Query names in its SELECT list
SelectCols == CurrentCols \ {"id", "published"}

\* the columns selectRowIDFromMessageID names
RowIDCols == {"id", "topic", "mid"}

\* the columns selectMessagesSinceTimeQuery names: the list, WHERE, ORDER BY
SinceTimeCols == SelectCols \cup {"published", "id"}

\* the columns selectMessagesSinceTimeIncludeScheduledQuery names: no published
SinceTimeScheduledCols == SelectCols \cup {"id"}

\* the columns selectMessagesSinceIDQuery and
\* selectMessagesSinceIDIncludeScheduledQuery name
SinceIDCols == SelectCols \cup {"id", "published"}

\* the columns selectMessagesDueQuery names
DueCols == SelectCols \cup {"id", "published"}

\* ------------------------------------------------------------------ strings

\* A tag is a sequence of characters, "," among them; a joined tag list is one
\* such sequence.  strings.Join(m.Tags, ",")
RECURSIVE Join(_)
Join(tags) ==
    IF tags = << >> THEN << >>
    ELSE IF Len(tags) = 1 THEN tags[1]
    ELSE tags[1] \o <<",">> \o Join(Tail(tags))

\* strings.Split(s, ","): the pieces between the separators (one piece, the
\* whole string, when there is none)
RECURSIVE SplitAcc(_, _)
SplitAcc(s, piece) ==
    IF s = << >> THEN <<piece>>
    ELSE IF s[1] = "," THEN <<piece>> \o SplitAcc(Tail(s), << >>)
    ELSE SplitAcc(Tail(s), Append(piece, s[1]))

Split(s) == SplitAcc(s, << >>)

\* ----------------------------------------------------------------- messages

\* type attachment
Att(name, size, expires, url, owner) ==
    [Name |-> name, Type |-> "", Size |-> size, Expires |-> expires,
     URL |-> url, Owner |-> owner]

\* The caller-supplied content of a message, the fields updateMessageQuery
\* rewrites: two values that differ in every field.
Content0 ==
    [Updated |-> 0, Message |-> "hello", Title |-> "", Priority |-> 0,
     Tags |-> << >>, Click |-> ""]
Content1 ==
    [Updated |-> 1, Message |-> "edited", Title |-> "title", Priority |-> 3,
     Tags |-> << <<"x">>, <<"y">> >>, Click |-> "url"]

\* type message; Attachment is << >> (nil) or << attachment >>
Msg(event, id, time, topic, c, att) ==
    [ID |-> id, Time |-> time, Updated |-> c.Updated, Event |-> event,
     Topic |-> topic, Message |-> c.Message, Title |-> c.Title,
     Priority |-> c.Priority, Tags |-> c.Tags, Click |-> c.Click,
     Attachment |-> att, Encoding |-> ""]

\* published := m.Time <= time.Now().Unix()
Published(t, clock) == t <= clock

\* a Go bool bound to an INT column
BoolToInt(b) == IF b THEN 1 ELSE 0

\* the row insertMessageQuery writes for m, at the position AUTOINCREMENT gives
InsertRow(m, position, published) ==
    LET has == m.Attachment # << >>
        a   == IF has THEN m.Attachment[1] ELSE Att("", 0, 0, "", "")
    IN  [id |-> position, mid |-> m.ID, time |-> m.Time, updated |-> m.Updated,
         topic |-> m.Topic, message |-> m.Message, title |-> m.Title,
         priority |-> m.Priority, tags |-> Join(m.Tags), click |-> m.Click,
         attachment_name |-> a.Name, attachment_type |-> a.Type,
         attachment_size |-> a.Size, attachment_expires |-> a.Expires,
         attachment_url |-> a.URL, attachment_owner |-> a.Owner,
         encoding |-> m.Encoding, published |-> BoolToInt(published)]

\* readMessages: one message per row, in the order of the rows
readMessage(r) ==
    [ID |-> r.mid, Time |-> r.time, Updated |-> r.updated, Event |-> messageEvent,
     Topic |-> r.topic, Message |-> r.message, Title |-> r.title,
     Priority |-> r.priority,
     Tags |-> IF r.tags # << >> THEN Split(r.tags) ELSE << >>,
     Click |-> r.click,
     Attachment |->
        IF r.attachment_name # "" /\ r.attachment_url # ""
        THEN << [Name |-> r.attachment_name, Type |-> r.attachment_type,
                 Size |-> r.attachment_size, Expires |-> r.attachment_expires,
                 URL |-> r.attachment_url, Owner |-> r.attachment_owner] >>
        ELSE << >>,
     Encoding |-> r.encoding]

readMessages(rs) == [i \in DOMAIN rs |-> readMessage(rs[i])]

\* ------------------------------------------------------------------ queries

\* a faulty variant: ORDER BY id
BeforeByPosition(r, s) == r.id < s.id

\* ORDER BY time, id
Before(r, s) == r.time < s.time \/ (r.time = s.time /\ r.id < s.id)

RECURSIVE OrderBy(_)
OrderBy(S) ==
    IF S = {} THEN << >>
    ELSE LET first == CHOOSE r \in S : \A s \in S \ {r} : Before(r, s)
         IN  <<first>> \o OrderBy(S \ {first})

RowSet(rs) == {rs[i] : i \in DOMAIN rs}

RECURSIVE Keep(_, _)
Keep(rs, S) ==
    IF rs = << >> THEN << >>
    ELSE IF rs[1] \in S THEN <<rs[1]>> \o Keep(Tail(rs), S)
    ELSE Keep(Tail(rs), S)

\* a faulty variant: the published = 1 condition left out
SinceTimeWhereAnyState(r, topic, t) == r.topic = topic /\ r.time >= t

\* selectMessagesSinceTimeQuery
SinceTimeWhere(r, topic, t) == r.topic = topic /\ r.time >= t /\ r.published = 1

\* selectMessagesSinceTimeIncludeScheduledQuery
SinceTimeScheduledWhere(r, topic, t) == r.topic = topic /\ r.time >= t

\* a faulty variant: id >= ? in place of id > ?
SinceIDWhereInclusive(r, topic, rowID) ==
    r.topic = topic /\ r.id >= rowID /\ r.published = 1

\* selectMessagesSinceIDQuery
SinceIDWhere(r, topic, rowID) == r.topic = topic /\ r.id > rowID /\ r.published = 1

\* selectMessagesSinceIDIncludeScheduledQuery
SinceIDScheduledWhere(r, topic, rowID) ==
    r.topic = topic /\ (r.id > rowID \/ r.published = 0)

\* selectMessagesDueQuery
DueWhere(r, clock) == r.time <= clock /\ r.published = 0

\* a faulty variant: the published = 1 condition left out
PruneWhereAnyState(r, cutoff) == r.time < cutoff

\* pruneMessagesQuery
PruneWhere(r, cutoff) == r.time < cutoff /\ r.published = 1

\* selectRowIDFromMessageID: the ids of the rows of the topic with this mid, as
\* the index scan yields them (ascending rowid)
RowIDsFromMessageID(rs, topic, mid) ==
    LET hit == {i \in DOMAIN rs : rs[i].topic = topic /\ rs[i].mid = mid}
    IN  [k \in 1..Cardinality(hit) |->
            rs[CHOOSE i \in hit : Cardinality({j \in hit : j < i}) = k - 1].id]

\* a faulty variant: SET published = 1 - published
MarkPublishedRowsToggle(rs, mid) ==
    [i \in DOMAIN rs |->
        IF rs[i].mid = mid THEN [rs[i] EXCEPT !.published = 1 - @] ELSE rs[i]]

\* updateMessagePublishedQuery
MarkPublishedRows(rs, mid) ==
    [i \in DOMAIN rs |->
        IF rs[i].mid = mid THEN [rs[i] EXCEPT !.published = 1] ELSE rs[i]]

\* a faulty variant: WHERE mid = ? alone
UpdateRowsAnyTopic(rs, m) ==
    [i \in DOMAIN rs |->
        IF rs[i].mid = m.ID
        THEN [rs[i] EXCEPT !.updated = m.Updated, !.message = m.Message,
                           !.title = m.Title, !.priority = m.Priority,
                           !.tags = Join(m.Tags), !.click = m.Click]
        ELSE rs[i]]

\* a faulty variant: the update also sets published = 0
UpdateRowsResetting(rs, m) ==
    [i \in DOMAIN rs |->
        IF rs[i].topic = m.Topic /\ rs[i].mid = m.ID
        THEN [rs[i] EXCEPT !.updated = m.Updated, !.message = m.Message,
                           !.title = m.Title, !.priority = m.Priority,
                           !.tags = Join(m.Tags), !.click = m.Click,
                           !.published = 0]
        ELSE rs[i]]

\* updateMessageQuery
UpdateRows(rs, m) ==
    [i \in DOMAIN rs |->
        IF rs[i].topic = m.Topic /\ rs[i].mid = m.ID
        THEN [rs[i] EXCEPT !.updated = m.Updated, !.message = m.Message,
                           !.title = m.Title, !.priority = m.Priority,
                           !.tags = Join(m.Tags), !.click = m.Click]
        ELSE rs[i]]

\* a faulty variant: an attachment expiring this very second is left out
AttachmentsSizeWhereStrict(r, owner, clock) ==
    r.attachment_owner = owner /\ r.attachment_expires > clock

\* selectAttachmentsSizeQuery
AttachmentsSizeWhere(r, owner, clock) ==
    r.attachment_owner = owner /\ r.attachment_expires >= clock

\* selectAttachmentsExpiredQuery
AttachmentsExpiredWhere(r, clock) ==
    r.attachment_expires > 0 /\ r.attachment_expires < clock

\* IFNULL(SUM(attachment_size), 0)
RECURSIVE SumSize(_)
SumSize(rs) ==
    IF rs = << >> THEN 0 ELSE rs[1].attachment_size + SumSize(Tail(rs))

\* ----------------------------------------------------------------- handlers
\* Each handler as a function of the store it runs on: the error it returns
\* and the store it leaves.

NoErr == "nil"
errUnexpectedMessageType == "unexpected message type"
errNoColumn == "no such column"

\* type sinceMarker: none, a time (AllMessages is time 0) or a message id
SinceNone == [kind |-> "none", time |-> 0, id |-> ""]
SinceTime(t) == [kind |-> "time", time |-> t, id |-> ""]
SinceID(mid) == [kind |-> "id", time |-> 0, id |-> mid]
sinceAllMessages == SinceTime(0)

\* a faulty variant: the c.nop test left out
AddMessageFnStoring(m, isNop, clock, cs, rs, sq) ==
    IF m.Event # messageEvent
    THEN [err |-> errUnexpectedMessageType, rows |-> rs, seq |-> sq]
    ELSE IF ~(InsertCols \subseteq cs)
    THEN [err |-> errNoColumn, rows |-> rs, seq |-> sq]
    ELSE [err |-> NoErr,
          rows |-> Append(rs, InsertRow(m, sq + 1, Published(m.Time, clock))),
          seq |-> sq + 1]

\* messageCache.AddMessage
AddMessageFn(m, isNop, clock, cs, rs, sq) ==
    IF m.Event # messageEvent
    THEN [err |-> errUnexpectedMessageType, rows |-> rs, seq |-> sq]
    ELSE IF isNop THEN [err |-> NoErr, rows |-> rs, seq |-> sq]
    ELSE IF ~(InsertCols \subseteq cs)
    THEN [err |-> errNoColumn, rows |-> rs, seq |-> sq]
    ELSE [err |-> NoErr,
          rows |-> Append(rs, InsertRow(m, sq + 1, Published(m.Time, clock))),
          seq |-> sq + 1]

\* messageCache.UpdateMessage
UpdateMessageFn(m, isNop, cs, rs) ==
    IF m.Event # messageEvent THEN [err |-> errUnexpectedMessageType, rows |-> rs]
    ELSE IF isNop THEN [err |-> NoErr, rows |-> rs]
    ELSE IF ~({"updated", "message", "title", "priority", "tags", "click",
               "topic", "mid"} \subseteq cs)
    THEN [err |-> errNoColumn, rows |-> rs]
    ELSE [err |-> NoErr, rows |-> UpdateRows(rs, m)]

\* messageCache.MarkPublished
MarkPublishedFn(m, cs, rs) ==
    IF ~({"published", "mid"} \subseteq cs) THEN [err |-> errNoColumn, rows |-> rs]
    ELSE [err |-> NoErr, rows |-> MarkPublishedRows(rs, m.ID)]

\* messageCache.Prune
PruneFn(cutoff, cs, rs) ==
    IF ~({"time", "published"} \subseteq cs) THEN [err |-> errNoColumn, rows |-> rs]
    ELSE [err |-> NoErr,
          rows |-> Keep(rs, {r \in RowSet(rs) : ~PruneWhere(r, cutoff)})]

\* messageCache.messagesSinceTime
messagesSinceTime(topic, since, scheduled, cs, rs) ==
    IF scheduled
    THEN IF ~(SinceTimeScheduledCols \subseteq cs)
         THEN [err |-> errNoColumn, sel |-> << >>]
         ELSE [err |-> NoErr,
               sel |-> OrderBy({r \in RowSet(rs) :
                                   SinceTimeScheduledWhere(r, topic, since.time)})]
    ELSE IF ~(SinceTimeCols \subseteq cs)
         THEN [err |-> errNoColumn, sel |-> << >>]
         ELSE [err |-> NoErr,
               sel |-> OrderBy({r \in RowSet(rs) :
                                   SinceTimeWhere(r, topic, since.time)})]

\* a faulty variant: an unknown id yields nothing
SinceIDFallbackEmpty(topic, scheduled, cs, rs) == [err |-> NoErr, sel |-> << >>]

\* the branch of messagesSinceID taken when idrows.Next() is false
SinceIDFallback(topic, scheduled, cs, rs) ==
    messagesSinceTime(topic, sinceAllMessages, scheduled, cs, rs)

\* the first query of messagesSinceID: selectRowIDFromMessageID on the store as
\* it is then, and the first position it yields, if any
LookupRowID(topic, since, cs, rs) ==
    IF ~(RowIDCols \subseteq cs) THEN [err |-> errNoColumn, idrows |-> << >>]
    ELSE LET ids == RowIDsFromMessageID(rs, topic, since.id)
         IN  [err |-> NoErr, idrows |-> IF ids = << >> THEN << >> ELSE <<ids[1]>>]

\* the second query of messagesSinceID, on the store as it is then: the
\* fallback when the first yielded nothing, else the select after rowID
SelectSinceID(topic, idrows, scheduled, cs, rs) ==
    IF idrows = << >> THEN SinceIDFallback(topic, scheduled, cs, rs)
    ELSE IF ~(SinceIDCols \subseteq cs) THEN [err |-> errNoColumn, sel |-> << >>]
    ELSE IF scheduled
    THEN [err |-> NoErr,
          sel |-> OrderBy({r \in RowSet(rs) :
                              SinceIDScheduledWhere(r, topic, idrows[1])})]
    ELSE [err |-> NoErr,
          sel |-> OrderBy({r \in RowSet(rs) : SinceIDWhere(r, topic, idrows[1])})]

\* messageCache.messagesSinceID when no other call runs between its queries
messagesSinceID(topic, since, scheduled, cs, rs) ==
    LET l == LookupRowID(topic, since, cs, rs)
    IN  IF l.err # NoErr THEN [err |-> l.err, sel |-> << >>]
        ELSE SelectSinceID(topic, l.idrows, scheduled, cs, rs)

\* messageCache.Messages when no other call runs between its queries: the rows
\* selected, in the order returned
MessagesFn(topic, since, scheduled, cs, rs) ==
    IF since.kind = "none" THEN [err |-> NoErr, sel |-> << >>]
    ELSE IF since.kind = "id" THEN messagesSinceID(topic, since, scheduled, cs, rs)
    ELSE messagesSinceTime(topic, since, scheduled, cs, rs)

\* a faulty variant: the due rows in the order of their positions (ORDER BY id)
MessagesDueByPosition(clock, cs, rs) ==
    IF ~(DueCols \subseteq cs) THEN [err |-> errNoColumn, sel |-> << >>]
    ELSE [err |-> NoErr, sel |-> Keep(rs, {r \in RowSet(rs) : DueWhere(r, clock)})]

\* messageCache.MessagesDue
MessagesDueFn(clock, cs, rs) ==
    IF ~(DueCols \subseteq cs) THEN [err |-> errNoColumn, sel |-> << >>]
    ELSE [err |-> NoErr, sel |-> OrderBy({r \in RowSet(rs) : DueWhere(r, clock)})]

\* messageCache.AttachmentsSize
AttachmentsSizeFn(owner, clock, cs, rs) ==
    IF ~({"attachment_size", "attachment_owner", "attachment_expires"} \subseteq cs)
    THEN [err |-> errNoColumn, size |-> 0]
    ELSE [err |-> NoErr,
          size |-> SumSize(Keep(rs, {r \in RowSet(rs) :
                                        AttachmentsSizeWhere(r, owner, clock)}))]

\* messageCache.AttachmentsExpired: the mid of each row selected, as the scan of
\* the relation yields them
AttachmentsExpiredFn(clock, cs, rs) ==
    IF ~({"mid", "attachment_expires"} \subseteq cs)
    THEN [err |-> errNoColumn, ids |-> << >>]
    ELSE LET sel == Keep(rs, {r \in RowSet(rs) : AttachmentsExpiredWhere(r, clock)})
         IN  [err |-> NoErr, ids |-> [i \in DOMAIN sel |-> sel[i].mid]]

\* the positions of a sequence of rows
Ids(sel) == [i \in DOMAIN sel |-> sel[i].id]

\* ------------------------------------------------------------------ inputs

NoMsg == Msg("", "", 0, "", Content0, << >>)

\* what AddMessage is called with: new messages of every id, time and topic,
\* one message with an attachment, and one event that is not a message
AddInputs ==
    {Msg(messageEvent, i, t, tp, Content0, << >>) :
        i \in Mids, t \in Times, tp \in Topics}
    \cup {Msg(messageEvent, "a", 0, "t1", Content0,
              <<Att("file", 1, 0, "url", "alice")>>)}
    \cup {Msg(keepaliveEvent, "a", 0, "t1", Content0, << >>)}

\* what UpdateMessage is called with
UpdateInputs ==
    {Msg(messageEvent, i, 0, tp, Content1, << >>) : i \in Mids, tp \in Topics}
    \cup {Msg(keepaliveEvent, "a", 0, "t1", Content1, << >>)}

\* what MarkPublished is called with (it reads m.ID alone)
MarkInputs == {Msg(messageEvent, i, 0, "t1", Content0, << >>) : i \in Mids}

SinceInputs ==
    {SinceNone} \cup {SinceTime(t) : t \in Times} \cup {SinceID(i) : i \in Mids}

\* ----------------------------------------------------------------- actions
\* One action per method of messageCache (two for Messages), each applying its
\* handler above.  A read hands its rows (or its error) to the caller and
\* leaves the store as it is.

IsOpen == pc = "open"

\* AddMessage.  The call reads the clock (line 226) and then enters db.Exec,
\* where it may wait for the store: the INSERT runs at that second or a later
\* one, with the flag of the clock as the call read it.
AddMessage(m) ==
    /\ IsOpen
    /\ seq < MaxRows
    /\ \E read \in Clocks :
          /\ read <= now
          /\ LET r == AddMessageFn(m, nop, read, cols, rows, seq)
             IN  /\ rows' = r.rows
                 /\ seq' = r.seq
    /\ discarded' = IF nop /\ m.Event = messageEvent
                    THEN discarded \cup {"AddMessage"} ELSE discarded
    /\ UNCHANGED <<cols, svTable, svRow, nop, now, pc, trail, err, found, locked,
                   broke, clients>>

UpdateMessage(m) ==
    /\ IsOpen
    /\ rows' = UpdateMessageFn(m, nop, cols, rows).rows
    /\ discarded' = IF nop /\ m.Event = messageEvent
                    THEN discarded \cup {"UpdateMessage"} ELSE discarded
    /\ UNCHANGED <<cols, seq, svTable, svRow, nop, now, pc, trail, err, found, locked,
                   broke, clients>>

MarkPublished(m) ==
    /\ IsOpen
    /\ rows' = MarkPublishedFn(m, cols, rows).rows
    /\ UNCHANGED <<cols, seq, svTable, svRow, nop, now, pc, trail, err, discarded,
                   found, locked, broke, clients>>

Prune(cutoff) ==
    /\ IsOpen
    /\ rows' = PruneFn(cutoff, cols, rows).rows
    /\ UNCHANGED <<cols, seq, svTable, svRow, nop, now, pc, trail, err, discarded,
                   found, locked, broke, clients>>

\* Messages.  With no cursor or a time cursor the call is at most one query.
\* With an id cursor it is two queries with no transaction around them, and
\* the other callers of the store run in between: this is the call up to its
\* first query, selectRowIDFromMessageID, after which it holds what that
\* query yielded (an error of that query ends the call).
Messages(topic, since, scheduled) ==
    /\ IsOpen
    /\ IF since.kind = "id"
       THEN /\ call = << >>
            /\ LET l == LookupRowID(topic, since, cols, rows)
               IN  call' = IF l.err # NoErr THEN << >>
                           ELSE <<[topic |-> topic, scheduled |-> scheduled,
                                   idrows |-> l.idrows]>>
       ELSE /\ MessagesFn(topic, since, scheduled, cols, rows).err
                   \in {NoErr, errNoColumn}
            /\ UNCHANGED call
    /\ UNCHANGED <<cols, rows, seq, svTable, svRow, nop, now, pc, trail, err,
                   discarded, found, locked, broke, returned, cursor, received>>

\* the rows the call in flight is handed if its second query runs now
Pending ==
    SelectSinceID(call[1].topic, call[1].idrows, call[1].scheduled, cols, rows)

\* the rest of a Messages call with an id cursor: its second query, on the
\* store as it is now
MessagesSelect ==
    /\ IsOpen
    /\ call # << >>
    /\ Pending.err \in {NoErr, errNoColumn}
    /\ call' = << >>
    /\ UNCHANGED <<cols, rows, seq, svTable, svRow, nop, now, pc, trail, err,
                   discarded, found, locked, broke, returned, cursor, received>>

\* MessagesDue, and likewise AttachmentsSize and AttachmentsExpired: the call
\* reads the clock and then queries the store, at that second or a later one
MessagesDue ==
    /\ IsOpen
    /\ \E read \in Clocks :
          /\ read <= now
          /\ MessagesDueFn(read, cols, rows).err \in {NoErr, errNoColumn}
    /\ UNCHANGED vars

\* the clock advances by a second
Tick ==
    /\ now < MaxTime
    /\ now' = now + 1
    /\ UNCHANGED <<cols, rows, seq, svTable, svRow, nop, pc, trail, err, discarded,
                   found, locked, broke, clients>>

AttachmentsSize(owner) ==
    /\ IsOpen
    /\ \E read \in Clocks :
          /\ read <= now
          /\ AttachmentsSizeFn(owner, read, cols, rows).err \in {NoErr, errNoColumn}
    /\ UNCHANGED vars

AttachmentsExpired ==
    /\ IsOpen
    /\ \E read \in Clocks :
          /\ read <= now
          /\ AttachmentsExpiredFn(read, cols, rows).err \in {NoErr, errNoColumn}
    /\ UNCHANGED vars

\* the file of a store: both relations and the AUTOINCREMENT counter
Db(c, r, s, t, v) == [cols |-> c, rows |-> r, seq |-> s, svTable |-> t, svRow |-> v]

\* no file, or a file with no relation in it
NoFile == Db({}, << >>, 0, FALSE, << >>)

\* -------------------------------------------------------------------- Spec
\* A store opened on no file (newMemCache, newNopCache, newSqliteCache on a new
\* file): setupNewCacheDB has created both relations at the current version.

Init ==
    /\ cols = CurrentCols
    /\ rows = << >>
    /\ seq = 0
    /\ svTable = TRUE
    /\ svRow = <<currentSchemaVersion>>
    /\ nop \in BOOLEAN
    /\ now = 0
    /\ pc = "open"
    /\ trail = << >>
    /\ err = NoErr
    /\ discarded = {}
    /\ found = NoFile
    /\ locked = FALSE
    /\ broke = FALSE
    /\ returned = {}
    /\ cursor = sinceAllMessages
    /\ received = {}
    /\ call = << >>

Next ==
    \/ \E m \in AddInputs : AddMessage(m)
    \/ \E m \in UpdateInputs : UpdateMessage(m)
    \/ \E m \in MarkInputs : MarkPublished(m)
    \/ \E c \in Cutoffs : Prune(c)
    \/ MessagesDue
    \/ Tick

Spec == Init /\ [][Next]_vars

\* ---------------------------------------------------------------- ReadSpec
\* The readers of the store beside its writers: a Messages call with an id
\* cursor runs its two queries as two steps, with the writers in between.

ReadNext ==
    \/ \E m \in AddInputs : AddMessage(m)
    \/ \E m \in MarkInputs : MarkPublished(m)
    \/ \E c \in Cutoffs : Prune(c)
    \/ \E tp \in Topics, s \in SinceInputs, b \in BOOLEAN : Messages(tp, s, b)
    \/ MessagesSelect

ReadSpec == Init /\ [][ReadNext]_vars

\* ----------------------------------------------------------------- NopSpec
\* A store, no-op or not, under AddMessage and UpdateMessage, and its readers.

NopNext ==
    \/ \E m \in AddInputs : AddMessage(m)
    \/ \E m \in UpdateInputs : UpdateMessage(m)
    \/ \E tp \in Topics, s \in SinceInputs, b \in BOOLEAN : Messages(tp, s, b)
    \/ MessagesSelect

NopSpec == Init /\ [][NopNext]_vars

\* ----------------------------------------------------------------- AttSpec
\* The attachment accountant: uploads of two owners with every expiry up to
\* the last clock value (0: never), and the clock running past them.

Owners == {"alice", "bob"}
Sizes == {1, 2}
Expiries == 0..MaxClock

\* messages with an attachment, and one without
AttInputs ==
    {Msg(messageEvent, i, 0, "t1", Content0, <<Att("file", sz, e, "url", o)>>) :
        i \in Mids, sz \in Sizes, e \in Expiries, o \in Owners}
    \cup {Msg(messageEvent, "a", 0, "t1", Content0, << >>)}

\* the clock advances by a second, up to the last expiry and one past it
ClockTick ==
    /\ now < MaxClock
    /\ now' = now + 1
    /\ UNCHANGED <<cols, rows, seq, svTable, svRow, nop, pc, trail, err, discarded,
                   found, locked, broke, clients>>

AttInit == Init /\ ~nop

AttNext ==
    \/ \E m \in AttInputs : AddMessage(m)
    \/ \E o \in Owners \cup {""} : AttachmentsSize(o)
    \/ AttachmentsExpired
    \/ ClockTick

AttSpec == AttInit /\ [][AttNext]_vars

\* ----------------------------------------------------------------- PubSpec
\* The background publisher beside the other callers: it asks for the due
\* messages and marks each message it was handed as published, once, at any
\* later moment.  Callers schedule messages up to one second past the last
\* clock value and may reuse an id.

PubInputs ==
    {Msg(messageEvent, i, t, tp, Content0, << >>) :
        i \in Mids, t \in Cutoffs, tp \in Topics}

\* the publisher calls MessagesDue and keeps what it returns
PollDue ==
    /\ IsOpen
    /\ \E read \in Clocks :
          /\ read <= now
          /\ LET r == MessagesDueFn(read, cols, rows)
             IN  /\ r.err = NoErr
                 /\ returned' = returned \cup
                       {[id |-> r.sel[k].id, mid |-> readMessage(r.sel[k]).ID,
                         marked |-> FALSE] : k \in DOMAIN r.sel}
    /\ UNCHANGED <<cols, rows, seq, svTable, svRow, nop, now, pc, trail, err,
                   discarded, found, locked, broke, cursor, received, call>>

\* the publisher calls MarkPublished with a message it was handed
PublisherMark(x) ==
    /\ IsOpen
    /\ x \in returned
    /\ ~x.marked
    /\ rows' = MarkPublishedFn([NoMsg EXCEPT !.ID = x.mid], cols, rows).rows
    /\ returned' = (returned \ {x}) \cup {[x EXCEPT !.marked = TRUE]}
    /\ UNCHANGED <<cols, seq, svTable, svRow, nop, now, pc, trail, err, discarded,
                   found, locked, broke, cursor, received, call>>

\* what the publisher can hold: the position and id of a row, marked or not
Handed == [id : 1..MaxRows, mid : Mids, marked : BOOLEAN]

PubInit == Init /\ ~nop

PubNext ==
    \/ \E m \in PubInputs : AddMessage(m)
    \/ \E m \in UpdateInputs : UpdateMessage(m)
    \/ \E c \in Cutoffs : Prune(c)
    \/ PollDue
    \/ \E x \in Handed : PublisherMark(x)
    \/ Tick

PubSpec == PubInit /\ [][PubNext]_vars

\* ----------------------------------------------------------------- SubSpec
\* A subscriber of one topic polling by id cursor, beside the publisher and
\* the other callers: its first call asks for all messages, each later one for
\* those after the last message of the latest answer that was not empty.  It
\* keeps polling (weak fairness on its calls that hand it something).

SubTopic == "t1"

SubInputs ==
    {Msg(messageEvent, i, t, SubTopic, Content0, << >>) : i \in Mids, t \in Times}

\* what the subscriber does with the rows a call hands it: it keeps them and
\* moves its cursor to the last one
Handover(sel) ==
    /\ received' = received \cup {sel[k].id : k \in DOMAIN sel}
    /\ cursor' = IF sel = << >> THEN cursor
                 ELSE SinceID(readMessage(sel[Len(sel)]).ID)

\* the subscriber calls Messages(topic, cursor, false): with a time cursor the
\* call is one query; with an id cursor this is the call up to its first query
Poll ==
    /\ IsOpen
    /\ call = << >>
    /\ IF cursor.kind = "id"
       THEN LET l == LookupRowID(SubTopic, cursor, cols, rows)
            IN  /\ l.err = NoErr
                /\ call' = <<[topic |-> SubTopic, scheduled |-> FALSE,
                              idrows |-> l.idrows]>>
                /\ UNCHANGED <<cursor, received>>
       ELSE LET r == MessagesFn(SubTopic, cursor, FALSE, cols, rows)
            IN  /\ r.err = NoErr
                /\ Handover(r.sel)
                /\ UNCHANGED call
    /\ UNCHANGED <<cols, rows, seq, svTable, svRow, nop, now, pc, trail, err,
                   discarded, found, locked, broke, returned>>

\* the rest of the subscriber's call: its second query, on the store as it is
\* now, and the handover of its rows
PollSelect ==
    /\ IsOpen
    /\ call # << >>
    /\ Pending.err = NoErr
    /\ Handover(Pending.sel)
    /\ call' = << >>
    /\ UNCHANGED <<cols, rows, seq, svTable, svRow, nop, now, pc, trail, err,
                   discarded, found, locked, broke, returned>>

SubInit == Init /\ ~nop

SubNext ==
    \/ \E m \in SubInputs : AddMessage(m)
    \/ \E c \in Cutoffs : Prune(c)
    \/ PollDue
    \/ \E x \in Handed : PublisherMark(x)
    \/ Poll
    \/ PollSelect
    \/ Tick

SubSpec == SubInit /\ [][SubNext]_vars /\ WF_vars(Poll) /\ WF_vars(PollSelect)

\* =============================================================== migration
\* The store on disk as setupCacheDB finds and leaves it.  A multi-statement
\* script runs inside its own BEGIN ... COMMIT; a script that stops at a failing
\* statement leaves its transaction open, and the open then fails, so nothing
\* of it reaches the disk.

errIO == "storage failure"
errNoTable == "no such table"
errDuplicateColumn == "duplicate column name"
errConstraint == "UNIQUE constraint failed"
errNoVersion == "cannot determine schema version: cache file may be corrupt"
errUnexpectedVersion == "unexpected schema version found"

\* a row with one more column
Extend(r, c, v) == [k \in DOMAIN r \cup {c} |-> IF k = c THEN v ELSE r[k]]

\* ALTER TABLE messages ADD COLUMN c ... DEFAULT(v)
AddColumn(res, c, v) ==
    IF res.err # NoErr THEN res
    ELSE IF res.db.cols = {} THEN [res EXCEPT !.err = errNoTable]
    ELSE IF c \in res.db.cols THEN [res EXCEPT !.err = errDuplicateColumn]
    ELSE [res EXCEPT !.db.cols = @ \cup {c},
                     !.db.rows = [i \in DOMAIN @ |-> Extend(@[i], c, v)]]

\* BEGIN; ...; COMMIT: all of the script or, when a statement fails, none
Transaction(d, res) == IF res.err = NoErr THEN res ELSE [err |-> res.err, db |-> d]

Start(d) == [err |-> NoErr, db |-> d]

\* migrate0To1AlterMessagesTableQuery
Migrate0To1(d) ==
    Transaction(d,
        AddColumn(AddColumn(AddColumn(Start(d), "title", ""), "priority", 0),
                  "tags", << >>))

\* migrate1To2AlterMessagesTableQuery
Migrate1To2(d) == AddColumn(Start(d), "published", 1)

\* migrate2To3AlterMessagesTableQuery
Migrate2To3(d) ==
    Transaction(d,
        AddColumn(AddColumn(AddColumn(AddColumn(AddColumn(AddColumn(AddColumn(
            Start(d), "click", ""), "attachment_name", ""), "attachment_type", ""),
            "attachment_size", 0), "attachment_expires", 0),
            "attachment_owner", ""), "attachment_url", ""))

\* migrate3To4AlterMessagesTableQuery
Migrate3To4(d) == AddColumn(Start(d), "encoding", "")

\* an INTEGER stored into a TEXT column
PositionText(n) == <<"1", "2", "3", "4", "5", "6", "7", "8", "9">>[n]

\* the columns of messages_new
NewCols == CurrentCols \ {"updated"}

\* the columns the INSERT ... SELECT of migrate4To5 copies as they are
CopiedCols == NewCols \ {"id", "mid"}

\* migrate4To5AlterMessagesTableQuery: messages_new takes every row of messages
\* in rowid order, the old id as mid and a new position as id; it then replaces
\* messages
Migrate4To5(d) ==
    IF d.cols = {} THEN [err |-> errNoTable, db |-> d]
    ELSE IF ~((CopiedCols \cup {"id"}) \subseteq d.cols)
    THEN [err |-> errNoColumn, db |-> d]
    ELSE [err |-> NoErr,
          db |-> [d EXCEPT
             !.cols = NewCols,
             !.rows = [i \in DOMAIN d.rows |->
                          [k \in NewCols |->
                              IF k = "id" THEN i
                              ELSE IF k = "mid"
                              THEN IF "mid" \in d.cols
                                   THEN PositionText(d.rows[i].id)
                                   ELSE d.rows[i].id
                              ELSE d.rows[i][k]]],
             !.seq = Len(d.rows)]]

\* the script of step v -> v + 1
MigrateScript(v, d) ==
    CASE v = 0 -> Migrate0To1(d)
      [] v = 1 -> Migrate1To2(d)
      [] v = 2 -> Migrate2To3(d)
      [] v = 3 -> Migrate3To4(d)
      [] OTHER -> Migrate4To5(d)

\* createMessagesTableQuery: CREATE TABLE IF NOT EXISTS leaves a relation that
\* exists as it is, and the two CREATE INDEX statements need its columns mid
\* and topic; the script stops at the one that fails and nothing is committed
CreateMessagesTable(d) ==
    IF d.cols = {} THEN [err |-> NoErr, db |-> [d EXCEPT !.cols = CurrentCols]]
    ELSE IF ~({"mid", "topic"} \subseteq d.cols) THEN [err |-> errNoColumn, db |-> d]
    ELSE [err |-> NoErr, db |-> d]

\* createSchemaVersionTableQuery (CREATE TABLE IF NOT EXISTS)
CreateSchemaVersionTable(d) == [err |-> NoErr, db |-> [d EXCEPT !.svTable = TRUE]]

\* insertSchemaVersion
InsertSchemaVersion(d, v) ==
    IF ~d.svTable THEN [err |-> errNoTable, db |-> d]
    ELSE IF d.svRow # << >> THEN [err |-> errConstraint, db |-> d]
    ELSE [err |-> NoErr, db |-> [d EXCEPT !.svRow = <<v>>]]

\* updateSchemaVersion
UpdateSchemaVersion(d, v) ==
    IF ~d.svTable THEN [err |-> errNoTable, db |-> d]
    ELSE [err |-> NoErr,
          db |-> [d EXCEPT !.svRow = IF @ = << >> THEN @ ELSE <<v>>]]

\* setupCacheDB up to its dispatch: where the open goes next, or its error
PcAlter(v) == <<"m0.alter", "m1.alter", "m2.alter", "m3.alter", "m4.alter">>[v + 1]
PcUpdate(v) == <<"m1.update", "m2.update", "m3.update", "m4.update">>[v]

\* a faulty variant: any version from the current one up counts as current
SetupDispatchAtLeast(d, okCount, okVersion) ==
    IF d.cols = {} \/ ~okCount THEN [err |-> NoErr, pc |-> "new.messages"]
    ELSE IF d.svTable /\ (~okVersion \/ d.svRow = << >>)
    THEN [err |-> errNoVersion, pc |-> "failed"]
    ELSE LET schemaVersion == IF d.svTable THEN d.svRow[1] ELSE 0
         IN  IF schemaVersion >= currentSchemaVersion
             THEN [err |-> NoErr, pc |-> "open"]
             ELSE [err |-> NoErr, pc |-> PcAlter(schemaVersion)]

\* setupCacheDB up to its dispatch.  selectMessagesCountQuery fails when there
\* is no relation messages or the query meets a storage failure (okCount =
\* FALSE): either way the file is taken for a new one.  selectSchemaVersionQuery
\* fails, and schemaVersion stays 0, when there is no relation schemaVersion.
\* When there is one the query is prepared without reading the file, and
\* rowsSV.Next() is false when the relation has no row or the read meets a
\* storage failure (okVersion = FALSE): either way the open fails with
\* "cannot determine schema version".
SetupDispatch(d, okCount, okVersion) ==
    IF d.cols = {} \/ ~okCount THEN [err |-> NoErr, pc |-> "new.messages"]
    ELSE IF d.svTable /\ (~okVersion \/ d.svRow = << >>)
    THEN [err |-> errNoVersion, pc |-> "failed"]
    ELSE LET schemaVersion == IF d.svTable THEN d.svRow[1] ELSE 0
         IN  IF schemaVersion = currentSchemaVersion
             THEN [err |-> NoErr, pc |-> "open"]
             ELSE IF schemaVersion \in 0..4
             THEN [err |-> NoErr, pc |-> PcAlter(schemaVersion)]
             ELSE [err |-> errUnexpectedVersion, pc |-> "failed"]

\* ------------------------------------------------------- the open, by steps

MaxLegacyRows == 1

Disk == Db(cols, rows, seq, svTable, svRow)

Store(d) ==
    /\ cols' = d.cols
    /\ rows' = d.rows
    /\ seq' = d.seq
    /\ svTable' = d.svTable
    /\ svRow' = d.svRow

\* One db.Exec: it meets a storage failure (ok = FALSE), or the statement
\* itself fails, and the open returns that error; or it takes effect and the
\* open goes on.
Exec(res, ok, next) ==
    /\ Store(IF ok THEN res.db ELSE Disk)
    /\ err' = IF ~ok THEN errIO ELSE res.err
    /\ pc' = IF ok /\ res.err = NoErr THEN next ELSE "failed"

\* newSqliteCache on the file (the process starts, or starts again)
Open ==
    /\ pc \in {"closed", "open", "failed"}
    /\ pc' = "setup"
    /\ trail' = << >>
    /\ err' = NoErr
    /\ found' = Disk
    /\ locked' = FALSE
    /\ UNCHANGED <<cols, rows, seq, svTable, svRow, nop, now, discarded, broke,
                   clients>>

\* setupCacheDB: the two queries, each of which may meet a storage failure,
\* and the dispatch on the version
SetupCacheDB(okCount, okVersion) ==
    /\ pc = "setup"
    /\ LET r == SetupDispatch(Disk, okCount, okVersion)
       IN  /\ pc' = r.pc
           /\ err' = r.err
    /\ locked' = (Disk.cols # {} /\ (~okCount \/ (Disk.svTable /\ ~okVersion)))
    /\ UNCHANGED <<cols, rows, seq, svTable, svRow, nop, now, trail, discarded,
                   found, broke, clients>>

\* setupNewCacheDB, statement by statement
NewCreateMessages(ok) ==
    /\ pc = "new.messages"
    /\ Exec(CreateMessagesTable(Disk), ok, "new.version")
    /\ UNCHANGED <<nop, now, trail, discarded, found, locked, broke, clients>>

NewCreateVersion(ok) ==
    /\ pc = "new.version"
    /\ Exec(CreateSchemaVersionTable(Disk), ok, "new.insert")
    /\ UNCHANGED <<nop, now, trail, discarded, found, locked, broke, clients>>

NewInsertVersion(ok) ==
    /\ pc = "new.insert"
    /\ Exec(InsertSchemaVersion(Disk, currentSchemaVersion), ok, "open")
    /\ UNCHANGED <<nop, now, trail, discarded, found, locked, broke, clients>>

\* migrateFrom<v>: the log line and the script of the step
MigrateAlter(v, ok) ==
    /\ pc = PcAlter(v)
    /\ trail' = Append(trail, v)
    /\ Exec(MigrateScript(v, Disk), ok, IF v = 0 THEN "m0.version" ELSE PcUpdate(v))
    /\ broke' = (broke \/ ~ok)
    /\ UNCHANGED <<nop, now, discarded, found, locked, clients>>

\* migrateFrom0: createSchemaVersionTableQuery, then insertSchemaVersion 1
Migrate0CreateVersion(ok) ==
    /\ pc = "m0.version"
    /\ Exec(CreateSchemaVersionTable(Disk), ok, "m0.insert")
    /\ broke' = (broke \/ ~ok)
    /\ UNCHANGED <<nop, now, trail, discarded, found, locked, clients>>

Migrate0InsertVersion(ok) ==
    /\ pc = "m0.insert"
    /\ Exec(InsertSchemaVersion(Disk, 1), ok, PcAlter(1))
    /\ broke' = (broke \/ ~ok)
    /\ UNCHANGED <<nop, now, trail, discarded, found, locked, clients>>

\* a faulty variant: the step returns nil in place of calling the next step
MigrateUpdateVersionStopping(v, ok) ==
    /\ pc = PcUpdate(v)
    /\ Exec(UpdateSchemaVersion(Disk, v + 1), ok, "open")
    /\ broke' = (broke \/ ~ok)
    /\ UNCHANGED <<nop, now, trail, discarded, found, locked, clients>>

\* migrateFrom<v>, v in 1..4: updateSchemaVersion v + 1, then the next step
MigrateUpdateVersion(v, ok) ==
    /\ pc = PcUpdate(v)
    /\ Exec(UpdateSchemaVersion(Disk, v + 1), ok, IF v = 4 THEN "open" ELSE PcAlter(v + 1))
    /\ broke' = (broke \/ ~ok)
    /\ UNCHANGED <<nop, now, trail, discarded, found, locked, clients>>

\* ----------------------------------------------------------------- MigSpec
\* The files an open can meet: none, one written by an earlier release at
\* version 0..4 (the layout of that release, any rows), or one whose recorded
\* version is newer than this build.

LegacyCols(v) ==
    {"id", "time", "topic", "message"}
    \cup (IF v >= 1 THEN {"title", "priority", "tags"} ELSE {})
    \cup (IF v >= 2 THEN {"published"} ELSE {})
    \cup (IF v >= 3 THEN {"click", "attachment_name", "attachment_type",
                          "attachment_size", "attachment_expires",
                          "attachment_owner", "attachment_url"} ELSE {})
    \cup (IF v >= 4 THEN {"encoding"} ELSE {})

\* a row of a release-v file: the message id is its column id
LegacyRow(v, mid, published) ==
    [k \in LegacyCols(v) |->
        CASE k = "id" -> mid
          [] k = "time" -> 0
          [] k = "topic" -> "t1"
          [] k = "message" -> "hello"
          [] k = "title" -> "title"
          [] k = "priority" -> 3
          [] k = "tags" -> <<"x">>
          [] k = "published" -> published
          [] k = "attachment_size" -> 0
          [] k = "attachment_expires" -> 0
          [] OTHER -> ""]

RECURSIVE LegacyTables(_, _)
LegacyTables(v, n) ==
    IF n = 0 THEN {<< >>}
    ELSE LegacyTables(v, n - 1)
         \cup {Append(t, LegacyRow(v, mid, p)) :
                 t \in {u \in LegacyTables(v, n - 1) : Len(u) = n - 1},
                 mid \in Mids, p \in {0, 1}}

futureSchemaVersion == currentSchemaVersion + 1

\* a row a newer build has written, in the columns this build knows
FutureRow == InsertRow(Msg(messageEvent, "a", 0, "t1", Content1, << >>), 1, TRUE)

MigInit ==
    /\ \/ /\ cols = {}
          /\ rows = << >>
          /\ svTable = FALSE
          /\ svRow = << >>
       \/ \E v \in 0..4 :
             /\ cols = LegacyCols(v)
             /\ rows \in LegacyTables(v, MaxLegacyRows)
             /\ svTable = (v >= 1)
             /\ svRow = IF v >= 1 THEN <<v>> ELSE << >>
       \/ /\ cols = CurrentCols
          /\ rows \in {<< >>, <<FutureRow>>}
          /\ svTable = TRUE
          /\ svRow = <<futureSchemaVersion>>
    /\ seq = IF "mid" \in cols THEN Len(rows) ELSE 0
    /\ nop = FALSE
    /\ now = 0
    /\ pc = "closed"
    /\ trail = << >>
    /\ err = NoErr
    /\ discarded = {}
    /\ found = NoFile
    /\ locked = FALSE
    /\ broke = FALSE
    /\ returned = {}
    /\ cursor = sinceAllMessages
    /\ received = {}
    /\ call = << >>

MigNext ==
    \/ Open
    \/ \E okCount, okVersion \in BOOLEAN : SetupCacheDB(okCount, okVersion)
    \/ \E ok \in BOOLEAN : NewCreateMessages(ok)
    \/ \E ok \in BOOLEAN : NewCreateVersion(ok)
    \/ \E ok \in BOOLEAN : NewInsertVersion(ok)
    \/ \E v \in 0..4, ok \in BOOLEAN : MigrateAlter(v, ok)
    \/ \E ok \in BOOLEAN : Migrate0CreateVersion(ok)
    \/ \E ok \in BOOLEAN : Migrate0InsertVersion(ok)
    \/ \E v \in 1..4, ok \in BOOLEAN : MigrateUpdateVersion(v, ok)

MigSpec == MigInit /\ [][MigNext]_vars

\* ================================================================== claims

MessageInputs == {m \in AddInputs : m.Event = messageEvent}
Cursors == SinceInputs \ {SinceNone}
TopicRows(tp) == {r \in RowSet(rows) : r.topic = tp}
Last(sq) == sq[Len(sq)]

\* C1: AddMessage of a message event in a store that is not no-op inserts
\* exactly one row, after the rows already there, and that row is published
\* exactly when the message's time is at most the clock at the insertion
\* (and unpublished exactly when its time is greater).
C1_PublishedAtInsert ==
    [][\A m \in MessageInputs :
          (AddMessage(m) /\ ~nop) =>
             /\ Len(rows') = Len(rows) + 1
             /\ SubSeq(rows', 1, Len(rows)) = rows
             /\ Last(rows').mid = m.ID
             /\ Last(rows').topic = m.Topic
             /\ Last(rows').time = m.Time
             /\ (Last(rows').published = 1) <=> (m.Time <= now)
             /\ (Last(rows').published = 0) <=> (m.Time > now)]_vars

\* C2: whatever call comes next, a row that is published and still exists
\* is still published after it.
C2_PublishedMonotone ==
    [][\A i \in DOMAIN rows : \A j \in DOMAIN rows' :
          (rows[i].published = 1 /\ rows'[j].id = rows[i].id)
             => rows'[j].published = 1]_vars

\* a published row that UpdateMessage has rewritten
C2_Witness ==
    \E i \in DOMAIN rows :
        rows[i].published = 1 /\ rows[i].message = Content1.Message

\* C3: Prune(cutoff) returns no error and keeps, unchanged and in their order,
\* exactly the rows that are unpublished or whose time is at least the cutoff.
C3_PruneExact ==
    IsOpen =>
        \A c \in Cutoffs :
            LET r == PruneFn(c, cols, rows)
            IN  /\ r.err = NoErr
                /\ RowSet(r.rows) =
                      {x \in RowSet(rows) : x.published = 0 \/ x.time >= c}
                /\ \A i, j \in DOMAIN r.rows : i < j => r.rows[i].id < r.rows[j].id

\* a prune has removed a row and has kept an unpublished row whose time lies
\* before the largest cutoff
C3_Witness ==
    /\ seq = 2
    /\ Len(rows) = 1
    /\ rows[1].published = 0
    /\ rows[1].time < MaxTime + 1
    /\ PruneFn(MaxTime + 1, cols, rows).rows = rows

\* C4: with includeScheduled false no cursor returns an unpublished row,
\* whether the call's queries run together or the second one runs later, on
\* the store as the writers have left it; and Messages(topic, AllMessages,
\* true) returns every unpublished row of the topic whose time is in the future.
C4_ScheduledVisibility ==
    IsOpen =>
        /\ \A tp \in Topics, s \in Cursors :
              LET r == MessagesFn(tp, s, FALSE, cols, rows)
              IN  \A k \in DOMAIN r.sel : r.sel[k].published = 1
        /\ (call # << >> /\ ~call[1].scheduled) =>
              \A k \in DOMAIN Pending.sel : Pending.sel[k].published = 1
        /\ \A x \in RowSet(rows) :
              (x.time > now /\ x.published = 0) =>
                  x \in RowSet(MessagesFn(x.topic, sinceAllMessages, TRUE, cols, rows).sel)

\* a topic with a published row and a scheduled one: the first alone is
\* returned without includeScheduled, both with it
C4_Witness ==
    \E tp \in Topics :
        /\ \E x \in TopicRows(tp) : x.time > now /\ x.published = 0
        /\ Len(MessagesFn(tp, sinceAllMessages, FALSE, cols, rows).sel) = 1
        /\ Len(MessagesFn(tp, sinceAllMessages, TRUE, cols, rows).sel) = 2

\* whether a row of the topic carries this message id
Resolves(tp, mid) == \E r \in TopicRows(tp) : r.mid = mid

\* the rows a replay of the whole topic shows
Visible(tp, scheduled) == {r \in TopicRows(tp) : scheduled \/ r.published = 1}

\* C5: when no row of the topic has the cursor's id, Messages(topic, ID(id), s)
\* returns no error and the very sequence Messages(topic, AllMessages, s)
\* returns, which holds every row of the topic (every published one when s is
\* false).  When the call's first query has found no such row and its second
\* runs later, the call returns what Messages(topic, AllMessages, s) returns on
\* the store of that later moment.
C5_IdCursorFallback ==
    IsOpen =>
        /\ \A tp \in Topics, mid \in Mids, b \in BOOLEAN :
              ~Resolves(tp, mid) =>
                  LET byId == MessagesFn(tp, SinceID(mid), b, cols, rows)
                      all  == MessagesFn(tp, sinceAllMessages, b, cols, rows)
                  IN  /\ byId.err = NoErr
                      /\ byId.sel = all.sel
                      /\ readMessages(byId.sel) = readMessages(all.sel)
                      /\ RowSet(byId.sel) = Visible(tp, b)
        /\ (call # << >> /\ call[1].idrows = << >>) =>
              LET all == MessagesFn(call[1].topic, sinceAllMessages,
                                    call[1].scheduled, cols, rows)
              IN  /\ Pending.err = NoErr
                  /\ Pending.sel = all.sel
                  /\ RowSet(Pending.sel) = Visible(call[1].topic, call[1].scheduled)

\* a call whose first query found no row with the cursor's id, on a topic in
\* which every id has a row by now: the second query returns them all
C5_Witness ==
    /\ call # << >>
    /\ call[1].idrows = << >>
    /\ \A mid \in Mids : Resolves(call[1].topic, mid)
    /\ Len(Pending.sel) = Cardinality(Mids)

\* C6: when the cursor's id resolves to the row at position p of the topic,
\* Messages(topic, ID(id), false) returns exactly the topic's published rows
\* after p, Messages(topic, ID(id), true) returns exactly the topic's rows that
\* are after p or unpublished, and a published cursor row is in neither.  When
\* the call's second query runs later than the first, this holds of the rows
\* the store has at that later moment.
C6_IdCursorResolved ==
    IsOpen =>
      /\ (call # << >> /\ call[1].idrows # << >>) =>
            LET p  == call[1].idrows[1]
                tp == call[1].topic
            IN  /\ Pending.err = NoErr
                /\ RowSet(Pending.sel) =
                      IF call[1].scheduled
                      THEN {r \in TopicRows(tp) : r.id > p \/ r.published = 0}
                      ELSE {r \in TopicRows(tp) : r.id > p /\ r.published = 1}
                /\ Len(Pending.sel) = Cardinality(RowSet(Pending.sel))
                /\ \A r \in TopicRows(tp) :
                      (r.id = p /\ r.published = 1) => r \notin RowSet(Pending.sel)
      /\ \A tp \in Topics, mid \in Mids :
            Resolves(tp, mid) =>
                LET p     == RowIDsFromMessageID(rows, tp, mid)[1]
                    plain == MessagesFn(tp, SinceID(mid), FALSE, cols, rows)
                    sched == MessagesFn(tp, SinceID(mid), TRUE, cols, rows)
                IN  /\ \E r \in TopicRows(tp) : r.mid = mid /\ r.id = p
                    /\ plain.err = NoErr /\ sched.err = NoErr
                    /\ RowSet(plain.sel) =
                          {r \in TopicRows(tp) : r.id > p /\ r.published = 1}
                    /\ RowSet(sched.sel) =
                          {r \in TopicRows(tp) : r.id > p \/ r.published = 0}
                    /\ Len(plain.sel) = Cardinality(RowSet(plain.sel))
                    /\ Len(sched.sel) = Cardinality(RowSet(sched.sel))
                    /\ \A r \in TopicRows(tp) :
                          (r.id = p /\ r.published = 1) =>
                              r \notin RowSet(plain.sel) \cup RowSet(sched.sel)

\* a call whose first query resolved the cursor to a row that has been pruned
\* since, with a published row added to the topic after it: the second query
\* returns that later row alone
C6_Witness ==
    /\ call # << >>
    /\ call[1].idrows # << >>
    /\ ~call[1].scheduled
    /\ \A r \in RowSet(rows) : r.id # call[1].idrows[1]
    /\ Len(Pending.sel) = 1
    /\ Pending.sel[1].id > call[1].idrows[1]

\* whether a sequence of rows is ordered by time, then by position
Ordered(sel) ==
    \A i, j \in DOMAIN sel :
        i < j => \/ sel[i].time < sel[j].time
                 \/ (sel[i].time = sel[j].time /\ sel[i].id < sel[j].id)

\* C7: every sequence Messages returns, its queries run together or the second
\* one later, is non-decreasing in time, rows of equal
\* time in the order of their positions; the positions in the relation grow
\* with insertion, none exceeds the counter, AddMessage takes the next one
\* above the counter, and the counter never goes back, so that no position is
\* handed out twice, pruned or not.
C7_ReplayOrdering ==
    /\ [](IsOpen =>
            /\ \A tp \in Topics, s \in SinceInputs, b \in BOOLEAN :
                  LET sel == MessagesFn(tp, s, b, cols, rows).sel
                      out == readMessages(sel)
                  IN  /\ Ordered(sel)
                      /\ \A i, j \in DOMAIN out : i < j => out[i].Time <= out[j].Time
            /\ call # << >> =>
                  LET out == readMessages(Pending.sel)
                  IN  /\ Ordered(Pending.sel)
                      /\ \A i, j \in DOMAIN out : i < j => out[i].Time <= out[j].Time
            /\ \A i, j \in DOMAIN rows : i < j => rows[i].id < rows[j].id
            /\ \A i \in DOMAIN rows : rows[i].id <= seq)
    /\ [][/\ seq' >= seq
          /\ Len(rows') > Len(rows) => Last(rows').id = seq + 1]_vars

\* a call in flight that is to return two rows of its topic against their
\* positions: the later insertion has the earlier time
C7_Witness ==
    /\ call # << >>
    /\ Len(Pending.sel) = 2
    /\ Pending.sel[1].id > Pending.sel[2].id

\* C8: MarkPublished called twice with one id returns no error either time
\* and leaves what one call leaves: published set on the rows with that id,
\* nothing else changed; this also when no row has the id.
C8_MarkPublishedIdempotent ==
    IsOpen =>
        \A m \in MarkInputs :
            LET once  == MarkPublishedFn(m, cols, rows)
                twice == MarkPublishedFn(m, cols, once.rows)
            IN  /\ once.err = NoErr /\ twice.err = NoErr
                /\ twice.rows = once.rows
                /\ Len(once.rows) = Len(rows)
                /\ \A i \in DOMAIN rows :
                      /\ rows[i].mid = m.ID => once.rows[i].published = 1
                      /\ rows[i].mid # m.ID => once.rows[i] = rows[i]
                      /\ \A k \in CurrentCols \ {"published"} :
                            once.rows[i][k] = rows[i][k]

\* MarkPublished has published a row ahead of its time (no insertion leaves
\* such a row), beside an unpublished row of another id
C8_Witness ==
    \E i, j \in DOMAIN rows :
        /\ rows[i].published = 1 /\ rows[i].time > now
        /\ rows[j].published = 0 /\ rows[j].mid # rows[i].mid

\* C9: in a no-op store AddMessage and UpdateMessage of a message event return
\* no error and write nothing, the relation stays empty, and Messages returns
\* the empty sequence, without error, for every topic, cursor and flag, also
\* when calls of AddMessage and UpdateMessage run between its two queries.
C9_NopStoreEmpty ==
    (IsOpen /\ nop) =>
        /\ rows = << >>
        /\ seq = 0
        /\ \A m \in MessageInputs :
              LET r == AddMessageFn(m, nop, now, cols, rows, seq)
              IN  r.err = NoErr /\ r.rows = rows /\ r.seq = seq
        /\ \A m \in {u \in UpdateInputs : u.Event = messageEvent} :
              LET r == UpdateMessageFn(m, nop, cols, rows)
              IN  r.err = NoErr /\ r.rows = rows
        /\ \A tp \in Topics, s \in SinceInputs, b \in BOOLEAN :
              LET r == MessagesFn(tp, s, b, cols, rows)
              IN  r.err = NoErr /\ readMessages(r.sel) = << >>
        /\ call # << >> => (Pending.err = NoErr /\ readMessages(Pending.sel) = << >>)

\* a no-op store on which both AddMessage and UpdateMessage have been called,
\* and a Messages call with an id cursor in flight on it
C9_Witness ==
    /\ nop
    /\ discarded = {"AddMessage", "UpdateMessage"}
    /\ call # << >>
    /\ Pending.sel = << >>
    /\ MessagesFn("t1", sinceAllMessages, TRUE, cols, rows).sel = << >>

\* the columns updateMessageQuery sets
MutableCols == {"updated", "message", "title", "priority", "tags", "click"}

\* C16: UpdateMessage(m) of a message event returns no error and rewrites
\* updated, message, title, priority, tags and click, and nothing else, on the
\* rows with m's topic and id; every other row is as it was, and so is the
\* whole relation when no row matches.  For any other event it returns the
\* unexpected-message-type error and leaves the relation as it was.
C16_UpdateFrame ==
    IsOpen =>
        \A m \in UpdateInputs :
            LET r == UpdateMessageFn(m, nop, cols, rows)
                hits == {i \in DOMAIN rows :
                            rows[i].topic = m.Topic /\ rows[i].mid = m.ID}
            IN  IF m.Event # messageEvent
                THEN r.err = errUnexpectedMessageType /\ r.rows = rows
                ELSE /\ r.err = NoErr
                     /\ Len(r.rows) = Len(rows)
                     /\ hits = {} => r.rows = rows
                     /\ \A i \in DOMAIN rows \ hits : r.rows[i] = rows[i]
                     /\ \A i \in hits :
                           /\ \A k \in CurrentCols \ MutableCols :
                                 r.rows[i][k] = rows[i][k]
                           /\ LET out == readMessage(r.rows[i])
                              IN  /\ out.Updated = m.Updated
                                  /\ out.Message = m.Message
                                  /\ out.Title = m.Title
                                  /\ out.Priority = m.Priority
                                  /\ out.Tags = m.Tags
                                  /\ out.Click = m.Click
                                  /\ out.Attachment = readMessage(rows[i]).Attachment

\* a rewritten row that carries an attachment, beside a row with the same id
\* in another topic that was left as it was
C16_Witness ==
    \E i, j \in DOMAIN rows :
        /\ rows[i].mid = rows[j].mid /\ rows[i].topic # rows[j].topic
        /\ rows[i].message = Content1.Message /\ rows[i].attachment_name # ""
        /\ rows[j].message = Content0.Message

\* the rows MessagesDue returns at this clock value
Due(clock, rs) == RowSet(MessagesDueFn(clock, cols, rs).sel)

\* C17: MessagesDue returns, without error and each once, exactly the rows of
\* any topic that are unpublished with a time at or before the clock as the
\* call read it, ordered by time and then position.  A step of MarkPublished(m) leaves no row with
\* m's id that MessagesDue returns at any clock value, a published row stays
\* published, and an unpublished row stays in the relation, unpublished, until
\* a MarkPublished with its id: so it is returned by every call made once its
\* time has passed, until it is marked.
C17_DueExact ==
    /\ [](IsOpen =>
            \A read \in {c \in Clocks : c <= now} :
                LET r == MessagesDueFn(read, cols, rows)
                IN  /\ r.err = NoErr
                    /\ RowSet(r.sel) =
                          {x \in RowSet(rows) : x.published = 0 /\ x.time <= read}
                    /\ Len(r.sel) = Cardinality(RowSet(r.sel))
                    /\ Ordered(r.sel))
    /\ [][/\ \A m \in MarkInputs :
                MarkPublished(m) =>
                    \A c \in Cutoffs : \A x \in Due(c, rows') : x.mid # m.ID
          /\ \A i \in DOMAIN rows :
                rows[i].published = 1 =>
                    \A j \in DOMAIN rows' :
                        rows'[j].id = rows[i].id => rows'[j].published = 1
          /\ \A i \in DOMAIN rows :
                rows[i].published = 0 =>
                    \E j \in DOMAIN rows' :
                        /\ rows'[j].id = rows[i].id
                        /\ \/ rows'[j].published = 0
                           \/ \E m \in MarkInputs :
                                 m.ID = rows[i].mid /\ MarkPublished(m)]_vars

\* two rows inserted as scheduled, the later one for the earlier time, both
\* times passed: MessagesDue returns the two against the order of their
\* positions, and a call that read the clock a second earlier returns the
\* earlier one alone
C17_Witness ==
    /\ IsOpen
    /\ now > 1
    /\ LET sel == MessagesDueFn(now, cols, rows).sel
       IN  /\ Len(sel) = 2
           /\ sel[1].time < sel[2].time
           /\ sel[1].id > sel[2].id
           /\ sel[1].published = 0 /\ sel[2].published = 0
           /\ sel[2].time = now
           /\ MessagesDueFn(now - 1, cols, rows).sel = <<sel[1]>>

\* C18: with the publisher marking only messages MessagesDue has handed to
\* it, whatever the other callers do, a row that is unpublished stays in the
\* relation and unpublished across every step, unless MessagesDue has returned
\* that very row before the step.
C18_NoEarlyPublish ==
    [][\A i \in DOMAIN rows :
          rows[i].published = 0 =>
              \/ \E j \in DOMAIN rows' :
                    rows'[j].id = rows[i].id /\ rows'[j].published = 0
              \/ \E x \in returned : x.id = rows[i].id]_vars

\* the row at position p is in the subscriber's topic and published
Deliverable(p) == \E r \in TopicRows(SubTopic) : r.id = p /\ r.published = 1

\* C19: a row of the topic that is published is, from then on, eventually
\* handed to the polling subscriber, unless it is pruned first; this whatever
\* its position relative to the subscriber's cursor.
C19_NoLoss ==
    \A p \in 1..MaxRows :
        Deliverable(p) ~> (p \in received \/ ~Deliverable(p))

\* ------------------------------------------------------ claims on the open

\* the columns whose presence shows that the script of step v -> v + 1 ran
StepCols(v) ==
    CASE v = 0 -> {"title", "priority", "tags"}
      [] v = 1 -> {"published"}
      [] v = 2 -> {"click", "attachment_name", "attachment_type", "attachment_size",
                   "attachment_expires", "attachment_owner", "attachment_url"}
      [] v = 3 -> {"encoding"}
      [] OTHER -> {"mid"}

\* the recorded version still says v (for v = 0: no record, or an empty one)
StillAt(v) ==
    IF v = 0 THEN ~svTable \/ svRow = << >> ELSE svTable /\ svRow = <<v>>

\* the structural change of step v -> v + 1 without its version
Torn(v) == StepCols(v) \subseteq cols /\ StillAt(v)

\* C10: when an open fails inside migration step v -> v + 1, the store holds
\* the structural change of the step and the version v + 1, or neither: never
\* the change with the version still v.
C10_StepAtomic ==
    (pc = "failed" /\ trail # << >>) => ~Torn(Last(trail))

\* C11: once a statement of a migration step has met a storage failure, every
\* later open that meets no storage failure (in its queries or its statements)
\* succeeds and leaves the current version recorded: such an open never fails
\* with a duplicate-column, missing-relation or undeterminable-version error.
C11_RetrySafe ==
    (broke /\ ~locked) =>
        /\ (pc = "failed") =>
              /\ err = errIO
              /\ err \notin {errDuplicateColumn, errNoTable, errNoVersion}
        /\ (pc = "open") => (svTable /\ svRow = <<currentSchemaVersion>>)

\* the open found a store at a recorded version: a row in schemaVersion, or a
\* relation of release 0, which has no schemaVersion beside it
FoundRecorded ==
    /\ found.cols # {}
    /\ \/ found.svTable /\ found.svRow # << >>
       \/ ~found.svTable /\ found.cols = LegacyCols(0)

\* the version the open found recorded; none recorded is version 0
FoundVersion == IF found.svTable THEN found.svRow[1] ELSE 0

\* the steps from version v to the current one
Chain(v) == [i \in 1..(currentSchemaVersion - v) |-> v + i - 1]

\* C12: a successful open of a store recorded at version v in 0..5 has run
\* exactly the steps v, v + 1, ..., 4 in that order, each once (none, and no
\* change to the store, when v = 5) and leaves version 5 recorded; a store
\* created by the open is at version 5 with no step run.
C12_OrderedChain ==
    (pc = "open") =>
        /\ err = NoErr
        /\ svTable /\ svRow = <<currentSchemaVersion>>
        /\ found.cols = {} => (trail = << >> /\ cols = CurrentCols /\ rows = << >>)
        /\ FoundRecorded =>
              /\ FoundVersion \in 0..currentSchemaVersion
              /\ trail = Chain(FoundVersion)
              /\ \A i, j \in DOMAIN trail : i < j => trail[i] < trail[j]
              /\ FoundVersion = currentSchemaVersion =>
                    (trail = << >> /\ Disk = found)

\* a release-0 file with a row, opened through all five steps
C12_Witness ==
    /\ pc = "open"
    /\ found.cols = LegacyCols(0) /\ found.rows # << >>
    /\ trail = <<0, 1, 2, 3, 4>>
    /\ svRow = <<currentSchemaVersion>>

\* the open found a recorded version above the current one
FoundFuture ==
    /\ found.cols # {}
    /\ found.svTable /\ found.svRow # << >>
    /\ found.svRow[1] > currentSchemaVersion

\* C13: an open that finds a recorded version above 5 does not succeed: it
\* ends with an error, which is the unexpected-version error when its queries
\* meet no storage failure; it runs no migration step and leaves the layout,
\* the rows and the recorded version as it found them.
C13_FutureVersionRefused ==
    FoundFuture =>
        /\ pc \in {"setup", "new.messages", "new.version", "new.insert", "failed"}
        /\ (pc = "failed") => err # NoErr
        /\ (pc = "failed" /\ ~locked) => err = errUnexpectedVersion
        /\ trail = << >>
        /\ Disk = found

\* the open of a version-6 file holding a row has been refused
C13_Witness ==
    /\ FoundFuture
    /\ pc = "failed"
    /\ err = errUnexpectedVersion
    /\ rows # << >>
    /\ svRow = <<futureSchemaVersion>>

\* C14: after a successful open the relation has the columns of a freshly
\* created one (updated among them), every row the open found is still there
\* with its values (a legacy row's id as its mid), and AddMessage and Messages
\* return no error.
C14_MigratedLayout ==
    (pc = "open") =>
        /\ cols = CurrentCols
        /\ "updated" \in cols
        /\ Len(rows) = Len(found.rows)
        /\ \A i \in DOMAIN rows :
              /\ \A k \in found.cols \ {"id"} : rows[i][k] = found.rows[i][k]
              /\ "mid" \notin found.cols => rows[i].mid = found.rows[i].id
        /\ \A m \in MessageInputs :
              AddMessageFn(m, nop, now, cols, rows, seq).err = NoErr
        /\ \A tp \in Topics :
              MessagesFn(tp, sinceAllMessages, TRUE, cols, rows).err = NoErr

\* ------------------------------------------------ claims on the attachments

\* the rows but the one at position p
Without(rs, p) == Keep(rs, {r \in RowSet(rs) : r.id # p})

RECURSIVE SizeOf(_)
SizeOf(S) ==
    IF S = {} THEN 0
    ELSE LET r == CHOOSE x \in S : TRUE
         IN  r.attachment_size + SizeOf(S \ {r})

\* C15: AttachmentsSize(owner) returns, without error, the sum of the sizes of
\* exactly the rows of that owner whose expiry is at or after the clock as the
\* call read it, 0 when there is none; a row of another owner or with an
\* earlier expiry adds nothing, at this clock value and at every one past its
\* expiry.
C15_AttachmentsSizeExact ==
    IsOpen =>
        \A o \in Owners \cup {""}, read \in {c \in Clocks : c <= now} :
            LET r == AttachmentsSizeFn(o, read, cols, rows)
                counted == {x \in RowSet(rows) :
                               x.attachment_owner = o /\ x.attachment_expires >= read}
            IN  /\ r.err = NoErr
                /\ r.size = SizeOf(counted)
                /\ counted = {} => r.size = 0
                /\ \A x \in RowSet(rows) \ counted :
                      AttachmentsSizeFn(o, read, cols, Without(rows, x.id)).size = r.size
                /\ \A x \in RowSet(rows), c \in 0..MaxClock :
                      c > x.attachment_expires =>
                          AttachmentsSizeFn(o, c, cols, Without(rows, x.id)).size
                             = AttachmentsSizeFn(o, c, cols, rows).size

\* two uploads of alice, one expired and one expiring this very second: her
\* total is the size of the second alone
C15_Witness ==
    \E i, j \in DOMAIN rows :
        /\ rows[i].attachment_owner = "alice" /\ rows[j].attachment_owner = "alice"
        /\ rows[i].attachment_expires > 0 /\ rows[i].attachment_expires < now
        /\ rows[j].attachment_expires = now
        /\ rows[i].attachment_size # rows[j].attachment_size
        /\ AttachmentsSizeFn("alice", now, cols, rows).size = rows[j].attachment_size

\* C20: at every clock value, a row with an owner and a size above 0 is counted
\* in AttachmentsSize of its owner (the total falls when the row is taken away)
\* exactly when AttachmentsExpired does not list its id; a row that never
\* expires (expires = 0) is counted.
C20_AccountingExhaustive ==
    IsOpen =>
        \A x \in RowSet(rows) :
            (x.attachment_owner # "" /\ x.attachment_size > 0) =>
                LET o == x.attachment_owner
                    isCounted ==
                        AttachmentsSizeFn(o, now, cols, rows).size
                           # AttachmentsSizeFn(o, now, cols, Without(rows, x.id)).size
                    expired == AttachmentsExpiredFn(now, cols, rows).ids
                    isListed == \E k \in DOMAIN expired : expired[k] = x.mid
                IN  /\ isCounted <=> ~isListed
                    /\ x.attachment_expires = 0 => isCounted

====
